---------------------------- MODULE Spec2Model ----------------------------
(***************************************************************************)
(* Four-way junction signal control: the shared IntelligentTrafficOptimizer *)
(* (phase coordinator, observation gate, cycle timing predictor), the       *)
(* per-lane VehicleDetector.process_frame pipeline and the per-lane bounded *)
(* queues of app.py.                                                        *)
(*                                                                          *)
(* Python lists are sequences; a Python index i is position i + 1, and a    *)
(* negative index wraps as in Python.  Lanes are 0..3.  Times are whole     *)
(* seconds.                                                                 *)
(***************************************************************************)
EXTENDS Integers, Sequences, FiniteSets, TLC

VARIABLES
    opt,          \* global_optimizer: the shared IntelligentTrafficOptimizer
    detectors,    \* detectors[lane]: the lane's VehicleDetector fields
    now,          \* time.time(), whole seconds
    video,        \* video[lane]: the tracked objects of every frame of the lane's video
    frame_queues, \* frame_queues[lane]: queue.Queue(maxsize=2)
    data_queues,  \* data_queues[lane]: queue.Queue(maxsize=5)
    call,         \* the operation the last step performed, with its arguments and result
    pc,           \* pc[lane]: position of the lane worker inside process_frame (SpecRace)
    loc,          \* loc[lane]: the lane worker's local values (SpecRace)
    hist          \* history kept for the properties (never read by the program)

vars == <<opt, detectors, now, video, frame_queues, data_queues, call, pc, loc, hist>>

(***************************************************************************)
(* Bounds of the model                                                      *)
(***************************************************************************)
\* set_cycle_timing is no longer called once cycle_number has reached this
MaxCycles == 2

\* record_observation_vehicle_count is no longer called once the recorded
\* peaks add up to this
MaxObsVehicles == 3

\* seconds of signal time one processed frame stands for: process_frame
\* computes elapsed_time = frame_count / fps, and the model's frame clock is
\* coarser than the source's fps = 15
FrameSeconds == 32

\* time.time() when the first lane worker starts
Epoch == 100

\* seconds by which one step of the wall clock advances time.time()
ClockStep == 30

\* the wall clock is advanced until Epoch + MaxClock
MaxClock == 30

(***************************************************************************)
(* Python helpers                                                           *)
(***************************************************************************)
Lanes == 0..3

PyPos(list, i) == IF i < 0 THEN i + Len(list) + 1 ELSE i + 1

PyGet(list, i) == list[PyPos(list, i)]

PySet(list, i, v) == [list EXCEPT ![PyPos(list, i)] = v]

Min(a, b) == IF a < b THEN a ELSE b

Max(a, b) == IF a > b THEN a ELSE b

RECURSIVE Sum(_)
Sum(list) == IF list = <<>> THEN 0 ELSE Head(list) + Sum(Tail(list))

All(list) == \A i \in 1..Len(list) : list[i]

(***************************************************************************)
(* IntelligentTrafficOptimizer                                              *)
(***************************************************************************)
num_phases == 4

observation_duration == 30

yellow_time == 3

max_phase_duration == 120

SeedTimings == <<30, 22, 0, 0>>

\* IntelligentTrafficOptimizer.__init__
OptInit ==
    [ cycle_number               |-> 0,
      phase_elapsed_times        |-> <<0, 0, 0, 0>>,
      observation_enabled        |-> TRUE,
      lane_observation_times     |-> <<0, 0, 0, 0>>,
      observation_vehicle_counts |-> <<0, 0, 0, 0>>,
      lanes_ready                |-> <<FALSE, FALSE, FALSE, FALSE>>,
      current_cycle_timings      |-> SeedTimings ]

\* update_phase_elapsed_time storing a fresh list that holds the one entry
update_phase_elapsed_time_fresh_list(o, phase_id, elapsed_time) ==
    IF phase_id < Len(o.phase_elapsed_times)
    THEN [o EXCEPT !.phase_elapsed_times = PySet(<<0, 0, 0, 0>>, phase_id, elapsed_time)]
    ELSE o

update_phase_elapsed_time(o, phase_id, elapsed_time) ==
    IF phase_id < Len(o.phase_elapsed_times)
    THEN [o EXCEPT !.phase_elapsed_times = PySet(@, phase_id, elapsed_time)]
    ELSE o

\* get_signal_state with the green comparison made inclusive
get_signal_state_green_inclusive(o, lane_id) ==
    IF lane_id >= 4 THEN "RED"
    ELSE LET green_duration == PyGet(o.current_cycle_timings, lane_id)
             elapsed_time == PyGet(o.phase_elapsed_times, lane_id)
         IN  IF green_duration = 0 THEN "RED"
             ELSE IF elapsed_time <= green_duration THEN "GREEN"
             ELSE IF elapsed_time < green_duration + 3 THEN "YELLOW"
             ELSE "RED"

get_signal_state(o, lane_id) ==
    IF lane_id >= num_phases THEN "RED"
    ELSE LET green_duration == IF lane_id < Len(o.current_cycle_timings)
                               THEN PyGet(o.current_cycle_timings, lane_id) ELSE 0
             elapsed_time == PyGet(o.phase_elapsed_times, lane_id)
         IN  IF green_duration = 0 THEN "RED"
             ELSE IF elapsed_time < green_duration THEN "GREEN"
             ELSE IF elapsed_time < green_duration + yellow_time THEN "YELLOW"
             ELSE "RED"

\* get_green_time counting down to the end of the yellow interval
get_green_time_through_yellow(o, lane_id) ==
    IF lane_id >= Len(o.current_cycle_timings) THEN 0
    ELSE LET green_duration == PyGet(o.current_cycle_timings, lane_id)
             elapsed_time == PyGet(o.phase_elapsed_times, lane_id)
         IN  IF elapsed_time < green_duration + yellow_time
             THEN Max(0, green_duration + yellow_time - elapsed_time)
             ELSE 0

\* get_green_time without the comparison of elapsed time and duration
get_green_time_unclamped(o, lane_id) ==
    IF lane_id >= Len(o.current_cycle_timings) THEN 0
    ELSE LET green_duration == PyGet(o.current_cycle_timings, lane_id)
             elapsed_time == PyGet(o.phase_elapsed_times, lane_id)
         IN  green_duration - elapsed_time

get_green_time(o, lane_id) ==
    IF lane_id >= Len(o.current_cycle_timings) THEN 0
    ELSE LET green_duration == PyGet(o.current_cycle_timings, lane_id)
             elapsed_time == PyGet(o.phase_elapsed_times, lane_id)
         IN  IF elapsed_time < green_duration
             THEN Max(0, green_duration - elapsed_time)
             ELSE 0

\* set_cycle_timing without the test of the vector's length
set_cycle_timing_any_length(o, cycle_timings) ==
    [o EXCEPT !.current_cycle_timings = cycle_timings,
              !.phase_elapsed_times = <<0, 0, 0, 0>>,
              !.cycle_number = @ + 1]

\* set_cycle_timing without the reset of the elapsed times
set_cycle_timing_no_reset(o, cycle_timings) ==
    IF Len(cycle_timings) = 4
    THEN [o EXCEPT !.current_cycle_timings = cycle_timings,
                   !.cycle_number = @ + 1]
    ELSE o

set_cycle_timing(o, cycle_timings) ==
    IF Len(cycle_timings) = 4
    THEN [o EXCEPT !.current_cycle_timings = cycle_timings,
                   !.phase_elapsed_times = <<0, 0, 0, 0>>,
                   !.cycle_number = @ + 1]
    ELSE o

\* the bucket table with every threshold taken inclusively
predict_duration_inclusive(vehicle_count) ==
    IF vehicle_count = 0 THEN 0
    ELSE IF vehicle_count <= 5 THEN 15
    ELSE IF vehicle_count <= 10 THEN 25
    ELSE IF vehicle_count <= 15 THEN 35
    ELSE 55

\* a bucket table whose durations exceed max_phase_duration
predict_duration_uncapped(vehicle_count) ==
    IF vehicle_count = 0 THEN 0 ELSE max_phase_duration + vehicle_count

predict_duration(vehicle_count) ==
    IF vehicle_count = 0 THEN 0
    ELSE IF vehicle_count < 5 THEN 15
    ELSE IF vehicle_count < 10 THEN 25
    ELSE IF vehicle_count < 15 THEN 35
    ELSE 55

\* lane_metrics_dict is a function from some lane ids to counts; .get(lane_id, 0)
predict_next_cycle_timings(lane_metrics_dict) ==
    [i \in 1..4 |->
        predict_duration(IF (i - 1) \in DOMAIN lane_metrics_dict
                         THEN lane_metrics_dict[i - 1] ELSE 0)]

\* update_observation_time leaving observation as soon as one lane is ready
update_observation_time_any_ready(o, lane_id, elapsed_seconds) ==
    IF lane_id < 4
    THEN LET o1 == [o EXCEPT !.lane_observation_times =
                        PySet(@, lane_id, Min(elapsed_seconds, 30))]
         IN  IF elapsed_seconds >= 30 /\ ~PyGet(o1.lanes_ready, lane_id)
             THEN [o1 EXCEPT !.lanes_ready = PySet(@, lane_id, TRUE),
                             !.observation_enabled = FALSE]
             ELSE o1
    ELSE o

\* update_observation_time storing the elapsed time without the cap
update_observation_time_uncapped(o, lane_id, elapsed_seconds) ==
    IF lane_id < 4
    THEN LET o1 == [o EXCEPT !.lane_observation_times =
                        PySet(@, lane_id, elapsed_seconds)]
         IN  IF elapsed_seconds >= 30 /\ ~PyGet(o1.lanes_ready, lane_id)
             THEN LET o2 == [o1 EXCEPT !.lanes_ready = PySet(@, lane_id, TRUE)]
                  IN  IF All(o2.lanes_ready)
                      THEN [o2 EXCEPT !.observation_enabled = FALSE]
                      ELSE o2
             ELSE o1
    ELSE o

\* update_observation_time with a lane ready only after more than the
\* observation duration
update_observation_time_strict(o, lane_id, elapsed_seconds) ==
    IF lane_id < 4
    THEN LET o1 == [o EXCEPT !.lane_observation_times =
                        PySet(@, lane_id, Min(elapsed_seconds, observation_duration))]
         IN  IF elapsed_seconds > observation_duration
                /\ ~PyGet(o1.lanes_ready, lane_id)
             THEN LET o2 == [o1 EXCEPT !.lanes_ready = PySet(@, lane_id, TRUE)]
                  IN  IF All(o2.lanes_ready)
                      THEN [o2 EXCEPT !.observation_enabled = FALSE]
                      ELSE o2
             ELSE o1
    ELSE o

update_observation_time(o, lane_id, elapsed_seconds) ==
    IF lane_id < 4
    THEN LET o1 == [o EXCEPT !.lane_observation_times =
                        PySet(@, lane_id, Min(elapsed_seconds, observation_duration))]
         IN  IF elapsed_seconds >= observation_duration
                /\ ~PyGet(o1.lanes_ready, lane_id)
             THEN LET o2 == [o1 EXCEPT !.lanes_ready = PySet(@, lane_id, TRUE)]
                  IN  IF All(o2.lanes_ready)
                      THEN [o2 EXCEPT !.observation_enabled = FALSE]
                      ELSE o2
             ELSE o1
    ELSE o

record_observation_vehicle_count_latest(o, lane_id, vehicle_count) ==
    IF lane_id < 4
    THEN [o EXCEPT !.observation_vehicle_counts =
              PySet(@, lane_id, vehicle_count)]
    ELSE o

record_observation_vehicle_count(o, lane_id, vehicle_count) ==
    IF lane_id < 4
    THEN [o EXCEPT !.observation_vehicle_counts =
              PySet(@, lane_id, Max(PyGet(@, lane_id), vehicle_count))]
    ELSE o

is_observation_complete(o) == All(o.lanes_ready)

\* the state finalize_observation_phase leaves; it returns the predicted
\* timings (or None) and installs nothing
finalize_observation_phase(o) ==
    IF is_observation_complete(o)
    THEN [o EXCEPT !.phase_elapsed_times = <<0, 0, 0, 0>>,
                   !.observation_enabled = FALSE]
    ELSE o


(***************************************************************************)
(* VehicleDetector: the signal state and green time a lane reports          *)
(***************************************************************************)
\* VehicleDetector.get_signal_state, with global_optimizer = o
detector_get_signal_state(o, lane_id) ==
    IF o.observation_enabled THEN "OBSERVATION"
    ELSE get_signal_state(o, lane_id)

\* VehicleDetector.get_green_time, with global_optimizer = o
detector_get_green_time(o, lane_id) == get_green_time(o, lane_id)

(***************************************************************************)
(* State shared by every specification                                      *)
(***************************************************************************)
None == -1

\* VehicleDetector.__init__ (the fields process_frame uses); fps counts the
\* frames per FrameSeconds seconds
DetInit ==
    [ lane_id                |-> 0,
      frame_count            |-> 0,
      fps                    |-> 1,
      frame_analyzed         |-> FALSE,
      limit_lines            |-> <<>>,
      observation_start_time |-> None,
      total_count            |-> <<>> ]

NoCall ==
    [name |-> "none", lane |-> 0, num |-> 0, vec |-> <<>>, arg |-> <<>>, ret |-> <<>>]

CalledRet(name, lane, num, vec, ret) ==
    [name |-> name, lane |-> lane, num |-> num, vec |-> vec, arg |-> <<>>, ret |-> ret]

Called(name, lane, num, vec) == CalledRet(name, lane, num, vec, <<>>)

\* the optimizer once all four lanes have reported a full observation window
OptControlling ==
    update_observation_time(
        update_observation_time(
            update_observation_time(
                update_observation_time(OptInit, 0, observation_duration),
                1, observation_duration),
            2, observation_duration),
        3, observation_duration)

\* get_detector(feed_id), first call
NewDetector(feed_id) == [DetInit EXCEPT !.lane_id = feed_id]

HistInit == [band_frames |-> <<>>]

NoVideo == [l \in Lanes |-> <<>>]

InitRest ==
    /\ detectors = [l \in Lanes |-> NewDetector(l)]
    /\ video = NoVideo
    /\ frame_queues = [l \in Lanes |-> <<>>]
    /\ data_queues = [l \in Lanes |-> <<>>]
    /\ call = NoCall
    /\ pc = [l \in Lanes |-> "idle"]
    /\ loc = [l \in Lanes |-> <<>>]
    /\ hist = HistInit

(***************************************************************************)
(* VehicleDetector.process_frame                                            *)
(***************************************************************************)
YELLOW_TIME == 3

ALL_RED_TIME == 2

\* the lanes of the phase group lane_id is not in (lines 204-210)
opposite_lanes(lane_id) ==
    IF lane_id \in {0, 2} THEN <<1, 3>> ELSE <<0, 2>>

\* lines 213-217: the largest get_green_time over the lanes of a list
RECURSIVE max_green(_, _)
max_green(o, lanes) ==
    IF lanes = <<>> THEN 0
    ELSE Max(get_green_time(o, Head(lanes)), max_green(o, Tail(lanes)))

\* get_next_green_time looking at the lane's own phase group
get_next_green_time_own_group(o, lane_id) ==
    LET signal_state == detector_get_signal_state(o, lane_id)
    IN  IF signal_state = "GREEN" \/ signal_state = "YELLOW" THEN 0
        ELSE IF signal_state = "RED"
        THEN Max(0, max_green(o, opposite_lanes(lane_id + 1)) + YELLOW_TIME + ALL_RED_TIME)
        ELSE 0

\* VehicleDetector.get_next_green_time, with global_optimizer = o
get_next_green_time(o, lane_id) ==
    LET signal_state == detector_get_signal_state(o, lane_id)
    IN  IF signal_state = "GREEN" \/ signal_state = "YELLOW" THEN 0
        ELSE IF signal_state = "RED"
        THEN Max(0, max_green(o, opposite_lanes(lane_id)) + YELLOW_TIME + ALL_RED_TIME)
        ELSE 0

\* a frame is its shape: [height |-> h, width |-> w]
analyze_video_frame(d, frame) ==
    IF d.frame_analyzed THEN d
    ELSE LET y1 == (frame.height * 60) \div 100
             y2 == (frame.height * 65) \div 100
             x_start == (frame.width * 20) \div 100
             x_end == (frame.width * 80) \div 100
         IN  [d EXCEPT !.limit_lines = << <<x_start, y1, x_end, y1>>,
                                          <<x_start, y2, x_end, y2>> >>,
                       !.frame_analyzed = TRUE]

\* a Python value used as a condition: None and 0 are false
Truthy(x) == x # None /\ x # 0

\* a tracked object is a row <<x1, y1, x2, y2, id>>
CenterX(result) == result[1] + ((result[3] - result[1]) \div 2)

CenterY(result) == result[2] + ((result[4] - result[2]) \div 2)

InBand(limit, cx, cy) ==
    /\ limit[1] < cx /\ cx < limit[3]
    /\ limit[2] - 15 < cy /\ cy < limit[2] + 15

Contains(list, x) == \E i \in 1..Len(list) : list[i] = x

\* the inner loop without the test that the id has not been counted yet
RECURSIVE count_on_lines_uncredited(_, _, _)
count_on_lines_uncredited(total_count, limits, result) ==
    IF limits = <<>> THEN total_count
    ELSE LET limit == Head(limits)
             counted ==
                 IF InBand(limit, CenterX(result), CenterY(result))
                 THEN Append(total_count, result[5])
                 ELSE total_count
             rest == Tail(limits)
         IN  IF counted = counted /\ rest = rest
             THEN count_on_lines_uncredited(counted, rest, result)
             ELSE total_count

\* the inner loop with a band that includes the rows 15 px from the line
RECURSIVE count_on_lines_inclusive_band(_, _, _)
count_on_lines_inclusive_band(total_count, limits, result) ==
    IF limits = <<>> THEN total_count
    ELSE LET limit == Head(limits)
             cx == CenterX(result)
             cy == CenterY(result)
             counted ==
                 IF /\ limit[1] < cx /\ cx < limit[3]
                    /\ limit[2] - 15 <= cy /\ cy <= limit[2] + 15
                    /\ ~Contains(total_count, result[5])
                 THEN Append(total_count, result[5])
                 ELSE total_count
             rest == Tail(limits)
         IN  IF counted = counted /\ rest = rest
             THEN count_on_lines_inclusive_band(counted, rest, result)
             ELSE total_count

\* the inner loop of process_frame: one tracked object against every line
\* (counted = counted is there for TLC, which then evaluates counted before
\* the next iteration instead of nesting the iterations)
RECURSIVE count_on_lines(_, _, _)
count_on_lines(total_count, limits, result) ==
    IF limits = <<>> THEN total_count
    ELSE LET limit == Head(limits)
             id == result[5]
             counted ==
                 IF InBand(limit, CenterX(result), CenterY(result))
                    /\ ~Contains(total_count, id)
                 THEN Append(total_count, id)
                 ELSE total_count
             rest == Tail(limits)
         IN  IF counted = counted /\ rest = rest
             THEN count_on_lines(counted, rest, result)
             ELSE total_count

\* the outer loop of process_frame: every tracked object in turn
RECURSIVE count_crossings(_, _, _)
count_crossings(total_count, limits, tracked_objects) ==
    IF tracked_objects = <<>> THEN total_count
    ELSE LET counted == count_on_lines(total_count, limits, Head(tracked_objects))
             rest == Tail(tracked_objects)
         IN  IF counted = counted /\ rest = rest
             THEN count_crossings(counted, limits, rest)
             ELSE total_count

\* the cycle-complete test with a strict comparison
cycle_complete_strict(elapsed_time, cycle_timings) ==
    elapsed_time > Sum(cycle_timings) + (YELLOW_TIME * 4)

\* the cycle-complete test of process_frame
cycle_complete(elapsed_time, cycle_timings) ==
    elapsed_time >= Sum(cycle_timings) + (YELLOW_TIME * 4)

\* process_frame analysing every frame as if it were the first
first_frame_step_every_frame(d, t, frame) ==
    LET a == analyze_video_frame([d EXCEPT !.frame_analyzed = FALSE], frame)
    IN  IF a.observation_start_time = None
        THEN [a EXCEPT !.observation_start_time = t, !.frame_count = 0]
        ELSE a

\* process_frame, lines 251-262: on the lane's first frame, the detection
\* lines and the start of the observation phase
first_frame_step(d, t, frame) ==
    IF ~d.frame_analyzed
    THEN LET a == analyze_video_frame(d, frame)
         IN  IF a.observation_start_time = None
             THEN [a EXCEPT !.observation_start_time = t, !.frame_count = 0]
             ELSE a
    ELSE d

\* process_frame, lines 264-276: the observation tick, or the lane's
\* transition to signal control
observation_step(o, d, t) ==
    IF o.observation_enabled /\ Truthy(d.observation_start_time)
    THEN [ o |-> update_observation_time(o, d.lane_id, t - d.observation_start_time),
           d |-> d ]
    ELSE IF ~o.observation_enabled /\ Truthy(d.observation_start_time)
    THEN [ o |-> o,
           d |-> [d EXCEPT !.frame_count = 0, !.observation_start_time = None] ]
    ELSE [ o |-> o, d |-> d ]

\* every lane calls set_cycle_timing at the end of its cycle
coordinator_any_lane(lane_id) == TRUE

\* lane 1 installs the next cycle instead of lane 0
coordinator_second_lane(lane_id) == lane_id = 1

\* the last lane installs the next cycle instead of lane 0
coordinator_last_lane(lane_id) == lane_id = 3

\* process_frame, line 297: the lane that installs the next cycle
coordinator(lane_id) == lane_id = 0

\* cycle_step with the lane's count itself as the estimate of every lane
cycle_step_undivided(o, d) ==
    LET frame_count == d.frame_count + 1
        elapsed_time == (frame_count * FrameSeconds) \div d.fps
        o2 == update_phase_elapsed_time(o, d.lane_id, elapsed_time)
        timings == o2.current_cycle_timings
        complete == cycle_complete(elapsed_time, timings)
        estimate == Len(d.total_count)
        predicted_timings == predict_next_cycle_timings([l \in Lanes |-> estimate])
    IN  [ o |-> IF complete /\ coordinator(d.lane_id)
                THEN set_cycle_timing(o2, predicted_timings)
                ELSE o2,
          d |-> [d EXCEPT !.frame_count = IF complete THEN 0 ELSE frame_count],
          elapsed_time |-> elapsed_time,
          timings |-> timings ]

\* process_frame, lines 278-300: the lane's elapsed time, cycle completion
\* and, on the leader lane, the install of the next cycle
cycle_step(o, d) ==
    LET frame_count == d.frame_count + 1
        elapsed_time == (frame_count * FrameSeconds) \div d.fps
        o2 == update_phase_elapsed_time(o, d.lane_id, elapsed_time)
        timings == o2.current_cycle_timings
        complete == cycle_complete(elapsed_time, timings)
        estimate == Len(d.total_count) \div 30
        predicted_timings == predict_next_cycle_timings([l \in Lanes |-> estimate])
    IN  [ o |-> IF complete /\ coordinator(d.lane_id)
                THEN set_cycle_timing(o2, predicted_timings)
                ELSE o2,
          d |-> [d EXCEPT !.frame_count = IF complete THEN 0 ELSE frame_count],
          elapsed_time |-> elapsed_time,
          timings |-> timings ]

\* process_frame, lines 323-328: the peak vehicle count during observation
tracking_step(o, d, tracked_objects) ==
    IF o.observation_enabled
    THEN record_observation_vehicle_count(o, d.lane_id, Len(tracked_objects))
    ELSE o

\* process_frame, lines 339-359: line crossing
counting_step(d, tracked_objects) ==
    [d EXCEPT !.total_count = count_crossings(@, d.limit_lines, tracked_objects)]

\* process_frame, lines 361-392: what the frame reports
frame_result(o, d) ==
    [ count |-> Len(d.total_count),
      green_time |-> detector_get_green_time(o, d.lane_id),
      signal_state |-> detector_get_signal_state(o, d.lane_id) ]

\* history: in how many frames (counted up to 2) each track id has been
\* inside the band of a crossing line of the lane
InAnyBand(limits, result) ==
    \E i \in 1..Len(limits) : InBand(limits[i], CenterX(result), CenterY(result))

BandFramesAfter(h, limits, tracked_objects) ==
    LET ids == {tracked_objects[i][5] : i \in
                   {j \in 1..Len(tracked_objects) :
                       InAnyBand(limits, tracked_objects[j])}}
        old(id) == IF id \in DOMAIN h THEN h[id] ELSE 0
    IN  [id \in (DOMAIN h) \cup ids |->
            IF id \in ids THEN Min(old(id) + 1, 2) ELSE old(id)]

\* process_frame called once by the worker of a lane: the steps above in
\* the order of the source
ProcessFrame(lane, frame, tracked_objects) ==
    /\ opt.cycle_number < MaxCycles
    /\ \E d1 \in {first_frame_step(detectors[lane], now, frame)} :
       \E s2 \in {observation_step(opt, d1, now)} :
       \E s3 \in {cycle_step(s2.o, s2.d)} :
       \E o4 \in {tracking_step(s3.o, s3.d, tracked_objects)} :
       \E d4 \in {counting_step(s3.d, tracked_objects)} :
           /\ opt' = o4
           /\ detectors' = [detectors EXCEPT ![lane] = d4]
           /\ call' = [ name |-> "process_frame", lane |-> lane,
                        num |-> s3.elapsed_time, vec |-> s3.timings,
                        arg |-> tracked_objects, ret |-> frame_result(o4, d4) ]

\* process_frame of a worker whose queues the specification leaves out
FrameStep(lane, frame, tracked_objects) ==
    /\ ProcessFrame(lane, frame, tracked_objects)
    /\ UNCHANGED <<now, video, frame_queues, data_queues, pc, loc>>

(***************************************************************************)
(* Spec: the junction.  Four lane workers process frames in any order and   *)
(* the wall clock advances between them.  The frames are the 480 x 360      *)
(* frames video_processing_thread resizes every input to.                   *)
(***************************************************************************)
ResizedFrame == [height |-> 360, width |-> 480]

\* a vehicle on the first crossing line of a 480 x 360 frame
OnLine(id) == <<220, 200, 260, 220, id>>

\* thirty vehicles on the crossing line at once
Platoon == [i \in 1..30 |-> OnLine(i)]

\* the videos of the four lanes: an empty road everywhere, or a queue of
\* thirty vehicles standing on the line of lane 0 or of lane 1
JunctionVideos ==
    { [l \in Lanes |-> IF l \in q THEN Platoon ELSE <<>>] :
          q \in { {}, {0}, {1} } }

Init ==
    /\ opt = OptInit
    /\ detectors = [l \in Lanes |-> NewDetector(l)]
    /\ now = Epoch
    /\ video \in JunctionVideos
    /\ frame_queues = [l \in Lanes |-> <<>>]
    /\ data_queues = [l \in Lanes |-> <<>>]
    /\ call = NoCall
    /\ pc = [l \in Lanes |-> "idle"]
    /\ loc = [l \in Lanes |-> <<>>]
    /\ hist = HistInit

LaneFrame ==
    \E lane \in Lanes :
        /\ FrameStep(lane, ResizedFrame, video[lane])
        /\ UNCHANGED hist

\* time.time() is read by a lane only until it has left observation
Tick ==
    /\ now + ClockStep <= Epoch + MaxClock
    /\ \E l \in Lanes : ~detectors[l].frame_analyzed
                        \/ detectors[l].observation_start_time # None
    /\ now' = now + ClockStep
    /\ UNCHANGED <<opt, detectors, video, frame_queues, data_queues, call, pc, loc, hist>>

Next == LaneFrame \/ Tick

Spec == Init /\ [][Next]_vars

(***************************************************************************)
(* SpecSignal: the junction on a finer frame clock.  During observation     *)
(* every lane processes one frame when it starts and one when its thirty    *)
(* seconds are over, the lanes in any order; once the junction controls     *)
(* the signals the four lane workers process frames in any order.           *)
(***************************************************************************)
SignalFps == 2

InitSignal ==
    /\ opt = OptInit
    /\ detectors = [l \in Lanes |-> [NewDetector(l) EXCEPT !.fps = SignalFps]]
    /\ now = Epoch
    /\ video \in JunctionVideos
    /\ frame_queues = [l \in Lanes |-> <<>>]
    /\ data_queues = [l \in Lanes |-> <<>>]
    /\ call = NoCall
    /\ pc = [l \in Lanes |-> "idle"]
    /\ loc = [l \in Lanes |-> <<>>]
    /\ hist = HistInit

SignalFrame ==
    \E lane \in Lanes :
        /\ opt.observation_enabled =>
               \/ ~detectors[lane].frame_analyzed
               \/ now > Epoch /\ ~PyGet(opt.lanes_ready, lane)
        /\ FrameStep(lane, ResizedFrame, video[lane])
        /\ UNCHANGED hist

SignalTick ==
    /\ now = Epoch
    /\ \A l \in Lanes : detectors[l].frame_analyzed
    /\ now' = now + observation_duration
    /\ UNCHANGED <<opt, detectors, video, frame_queues, data_queues, call, pc, loc, hist>>

NextSignal == SignalFrame \/ SignalTick

SpecSignal == InitSignal /\ [][NextSignal]_vars

\* a frame of the leader lane's worker while the junction controls the
\* signals
LeaderFrame ==
    /\ ~opt.observation_enabled
    /\ FrameStep(0, ResizedFrame, video[0])
    /\ UNCHANGED hist

\* the junction of SpecSignal with an empty road on the leader lane (an
\* empty road everywhere, or thirty vehicles on the line of lane 1) and a
\* leader lane's worker that keeps processing frames; the workers of the
\* other lanes may stop at any point
InitLeader ==
    /\ InitSignal
    /\ video[0] = <<>>

SpecLeaderFair == InitLeader /\ [][NextSignal]_vars /\ WF_vars(LeaderFrame)

\* the videos of a junction with little traffic: an empty road everywhere,
\* or one vehicle standing on the line of lane 0
LightVideos ==
    { [l \in Lanes |-> IF l \in q THEN <<OnLine(1)>> ELSE <<>>] :
          q \in { {}, {0} } }

InitObserve ==
    /\ opt = OptInit
    /\ detectors = [l \in Lanes |-> [NewDetector(l) EXCEPT !.fps = SignalFps]]
    /\ now = Epoch
    /\ video \in LightVideos
    /\ frame_queues = [l \in Lanes |-> <<>>]
    /\ data_queues = [l \in Lanes |-> <<>>]
    /\ call = NoCall
    /\ pc = [l \in Lanes |-> "idle"]
    /\ loc = [l \in Lanes |-> <<>>]
    /\ hist = HistInit

\* a frame of the worker of one lane, as in SignalFrame
SignalFrameOf(lane) ==
    /\ opt.observation_enabled =>
           \/ ~detectors[lane].frame_analyzed
           \/ now > Epoch /\ ~PyGet(opt.lanes_ready, lane)
    /\ FrameStep(lane, ResizedFrame, video[lane])
    /\ UNCHANGED hist

\* the junction of SpecSignal with four lane workers that keep processing
\* frames and a clock that advances
SpecObserveFair ==
    /\ InitObserve
    /\ [][NextSignal]_vars
    /\ \A lane \in Lanes : WF_vars(SignalFrameOf(lane))
    /\ WF_vars(SignalTick)

(***************************************************************************)
(* SpecCounter: one lane worker fed tracked objects from a bounded set      *)
(***************************************************************************)
CounterLane == 1

CounterFrames == { [height |-> 360, width |-> 480], [height |-> 240, width |-> 320] }

TrackIds == {1, 2}

\* boxes whose centre is: on line 1 only; on both lines; on no line; on the
\* left end of the lines; 15 px above line 1
CounterBoxes ==
    { <<220, 200, 260, 220>>, <<220, 215, 260, 235>>,
      <<220, 90, 260, 110>>, <<76, 215, 116, 235>>,
      <<220, 191, 260, 211>> }

CounterRows == { b \o <<id>> : b \in CounterBoxes, id \in TrackIds }

CounterTracked ==
    { <<>> } \cup { <<r>> : r \in CounterRows }
             \cup { <<r1, r2>> : r1 \in CounterRows, r2 \in CounterRows }

CounterFrame ==
    \E frame \in CounterFrames, tracked_objects \in CounterTracked :
        /\ FrameStep(CounterLane, frame, tracked_objects)
        /\ hist' = [hist EXCEPT !.band_frames =
                       BandFramesAfter(@, detectors'[CounterLane].limit_lines,
                                       tracked_objects)]

NextCounter == CounterFrame

InitCounter ==
    /\ opt = OptInit
    /\ now = Epoch
    /\ InitRest

SpecCounter == InitCounter /\ [][NextCounter]_vars

(***************************************************************************)
(* SpecLines: one detector given frames of several sizes.  hist keeps the   *)
(* first and the latest frame passed to process_frame (each a sequence of   *)
(* at most one frame).                                                      *)
(***************************************************************************)
LinesFrames ==
    { [height |-> 360, width |-> 480], [height |-> 240, width |-> 320],
      [height |-> 725, width |-> 1283] }

LinesTracked == { <<>>, <<OnLine(1)>>, <<OnLine(2)>>, <<OnLine(1), OnLine(2)>> }

InitLines ==
    /\ opt = OptInit
    /\ detectors = [l \in Lanes |-> NewDetector(l)]
    /\ now = Epoch
    /\ video = NoVideo
    /\ frame_queues = [l \in Lanes |-> <<>>]
    /\ data_queues = [l \in Lanes |-> <<>>]
    /\ call = NoCall
    /\ pc = [l \in Lanes |-> "idle"]
    /\ loc = [l \in Lanes |-> <<>>]
    /\ hist = [first_frame |-> <<>>, last_frame |-> <<>>]

LinesFrame ==
    \E frame \in LinesFrames, tracked_objects \in LinesTracked :
        /\ FrameStep(CounterLane, frame, tracked_objects)
        /\ hist' = [ first_frame |-> IF hist.first_frame = <<>> THEN <<frame>>
                                     ELSE hist.first_frame,
                     last_frame |-> <<frame>> ]

NextLines == LinesFrame

SpecLines == InitLines /\ [][NextLines]_vars

(***************************************************************************)
(* SpecPhase: the phase operations of the optimizer, called with arguments  *)
(* from bounded sets                                                        *)
(***************************************************************************)
\* lane identifiers passed to the optimizer: the four lanes, -1 and 4
LaneArgs == -1..4

ElapsedArgs == {10, 22, 31, 33}

TimingArgs == { <<0, 15, 25, 55>>, <<30, 22, 0>> }

InitPhase ==
    /\ opt \in {OptInit, OptControlling}
    /\ now = Epoch
    /\ InitRest

PhaseUpdateElapsed ==
    \E lane \in LaneArgs, e \in ElapsedArgs :
        /\ opt' = update_phase_elapsed_time(opt, lane, e)
        /\ call' = Called("update_phase_elapsed_time", lane, e, <<>>)
        /\ UNCHANGED <<detectors, now, video, frame_queues, data_queues, pc, loc, hist>>

PhaseSetCycleTiming ==
    \E v \in TimingArgs :
        /\ opt.cycle_number < MaxCycles
        /\ opt' = set_cycle_timing(opt, v)
        /\ call' = Called("set_cycle_timing", 0, 0, v)
        /\ UNCHANGED <<detectors, now, video, frame_queues, data_queues, pc, loc, hist>>

NextPhase == PhaseUpdateElapsed \/ PhaseSetCycleTiming

SpecPhase == InitPhase /\ [][NextPhase]_vars

(***************************************************************************)
(* SpecObs: the observation operations of the optimizer, called with        *)
(* arguments from bounded sets                                              *)
(***************************************************************************)
ObsElapsedArgs == {12, 30, 45}

ObsCountArgs == {1, 2}

InitObs ==
    /\ opt = OptInit
    /\ now = Epoch
    /\ InitRest

ObsTick ==
    \E lane \in LaneArgs, e \in ObsElapsedArgs :
        /\ opt' = update_observation_time(opt, lane, e)
        /\ call' = Called("update_observation_time", lane, e, <<>>)
        /\ UNCHANGED <<detectors, now, video, frame_queues, data_queues, pc, loc, hist>>

ObsRecord ==
    \E lane \in LaneArgs, n \in ObsCountArgs :
        /\ Sum(opt.observation_vehicle_counts) < MaxObsVehicles
        /\ opt' = record_observation_vehicle_count(opt, lane, n)
        /\ call' = Called("record_observation_vehicle_count", lane, n, <<>>)
        /\ UNCHANGED <<detectors, now, video, frame_queues, data_queues, pc, loc, hist>>

ObsFinalize ==
    /\ opt' = finalize_observation_phase(opt)
    /\ call' = Called("finalize_observation_phase", 0, 0, <<>>)
    /\ UNCHANGED <<detectors, now, video, frame_queues, data_queues, pc, loc, hist>>

NextObs == ObsTick \/ ObsRecord \/ ObsFinalize

SpecObs == InitObs /\ [][NextObs]_vars

(***************************************************************************)
(* SpecPredict: predict_next_cycle_timings applied to counts drawn from a   *)
(* bounded set                                                              *)
(***************************************************************************)
PredictCountArgs == {0, 1, 4, 5, 9, 10, 14, 15, 20}

\* the dict {0: c[1], 1: c[2], 2: c[3], 3: c[4]}
DictOf(c) == [lane \in Lanes |-> c[lane + 1]]

InitPredict ==
    /\ opt = OptInit
    /\ detectors = [l \in Lanes |-> NewDetector(l)]
    /\ now = Epoch
    /\ video = NoVideo
    /\ frame_queues = [l \in Lanes |-> <<>>]
    /\ data_queues = [l \in Lanes |-> <<>>]
    /\ \E c \in [1..4 -> PredictCountArgs] : call = Called("input", 0, 0, c)
    /\ pc = [l \in Lanes |-> "idle"]
    /\ loc = [l \in Lanes |-> <<>>]
    /\ hist = HistInit

PredictApply ==
    /\ call.name = "input"
    /\ call' = CalledRet("predict_next_cycle_timings", 0, 0, call.vec,
                         predict_next_cycle_timings(DictOf(call.vec)))
    /\ UNCHANGED <<opt, detectors, now, video, frame_queues, data_queues, pc, loc, hist>>

NextPredict == PredictApply

SpecPredict == InitPredict /\ [][NextPredict]_vars

\* C7: predict_next_cycle_timings returns exactly 4 durations and computes
\* each lane from that lane's count alone: count 0 gives 0, 1..4 gives 15,
\* 5..9 gives 25, 10..14 gives 35 and count >= 15 gives 55; counts
\* [0,4,9,20] give [0,15,25,55].
C7_PredictBuckets ==
    call.name = "predict_next_cycle_timings" =>
        /\ Len(call.ret) = 4
        /\ \A i \in 1..4 :
              LET c == call.vec[i]
                  d == call.ret[i]
              IN  /\ c = 0 => d = 0
                  /\ c \in 1..4 => d = 15
                  /\ c \in 5..9 => d = 25
                  /\ c \in 10..14 => d = 35
                  /\ c >= 15 => d = 55
        /\ call.vec = <<0, 4, 9, 20>> => call.ret = <<0, 15, 25, 55>>

\* the predictor has been applied to [0,4,9,20]
C7_Witness ==
    /\ call.name = "predict_next_cycle_timings"
    /\ call.vec = <<0, 4, 9, 20>>
    /\ call.ret = <<0, 15, 25, 55>>

(***************************************************************************)
(* SpecBroker: the frame and data queues of one lane.  The lane worker      *)
(* pushes the data and the frame of every iteration, one queue operation    *)
(* at a time; generate_frames and get_data pull.                            *)
(***************************************************************************)
BrokerLane == 0

MaxPushes == 7

MaxPulls == 2

frame_maxsize == 2

data_maxsize == 5

\* Queue.full()
full(q, maxsize) == Len(q) >= maxsize

\* Queue.get_nowait() taking the newest entry instead of the oldest
get_nowait_newest(q) == SubSeq(q, 1, Len(q) - 1)

\* what Queue.get_nowait() leaves in a queue that is not empty
get_nowait(q) == Tail(q)

LastN(list, n) == SubSeq(list, Max(1, Len(list) - n + 1), Len(list))

BrokerIdle == [item |-> 0, encoded |-> FALSE]

InitBroker ==
    /\ opt = OptInit
    /\ detectors = [l \in Lanes |-> NewDetector(l)]
    /\ now = Epoch
    /\ video = NoVideo
    /\ frame_queues = [l \in Lanes |-> <<>>]
    /\ data_queues = [l \in Lanes |-> <<>>]
    /\ call = NoCall
    /\ pc = [l \in Lanes |-> "idle"]
    /\ loc = [l \in Lanes |-> BrokerIdle]
    /\ hist = [pushed_frames |-> <<>>, pushed_data |-> <<>>, pulls |-> 0]

BrokerRest == UNCHANGED <<opt, detectors, now, video, call>>

\* one iteration of video_processing_thread up to line 616: frame number
\* item is processed; compress_frame will return bytes or None
Produce(l) ==
    /\ pc[l] = "idle"
    /\ loc[l].item < MaxPushes
    /\ \E encoded \in BOOLEAN :
           loc' = [loc EXCEPT ![l] = [item |-> loc[l].item + 1, encoded |-> encoded]]
    /\ pc' = [pc EXCEPT ![l] = "data_put"]
    /\ UNCHANGED <<frame_queues, data_queues, hist>>
    /\ BrokerRest

\* line 619: data_queues[feed_id].put(data, block=False)
DataPut(l) ==
    /\ pc[l] = "data_put"
    /\ IF full(data_queues[l], data_maxsize)
       THEN /\ pc' = [pc EXCEPT ![l] = "data_evict"]
            /\ UNCHANGED <<data_queues, hist>>
       ELSE /\ data_queues' = [data_queues EXCEPT ![l] = Append(@, loc[l].item)]
            /\ hist' = [hist EXCEPT !.pushed_data = Append(@, loc[l].item)]
            /\ pc' = [pc EXCEPT ![l] = "frame_put"]
    /\ UNCHANGED <<frame_queues, loc>>
    /\ BrokerRest

\* line 622: get_nowait() after queue.Full; on queue.Empty the item is dropped
DataEvict(l) ==
    /\ pc[l] = "data_evict"
    /\ IF data_queues[l] = <<>>
       THEN /\ pc' = [pc EXCEPT ![l] = "frame_put"]
            /\ hist' = [hist EXCEPT !.pushed_data = Append(@, loc[l].item)]
            /\ UNCHANGED data_queues
       ELSE /\ data_queues' = [data_queues EXCEPT ![l] = get_nowait(@)]
            /\ pc' = [pc EXCEPT ![l] = "data_reput"]
            /\ UNCHANGED hist
    /\ UNCHANGED <<frame_queues, loc>>
    /\ BrokerRest

\* line 623: the second put; queue.Full is not caught there and ends the
\* iteration in the handler of line 639
DataReput(l) ==
    /\ pc[l] = "data_reput"
    /\ IF full(data_queues[l], data_maxsize)
       THEN /\ pc' = [pc EXCEPT ![l] = "idle"]
            /\ UNCHANGED data_queues
       ELSE /\ data_queues' = [data_queues EXCEPT ![l] = Append(@, loc[l].item)]
            /\ pc' = [pc EXCEPT ![l] = "frame_put"]
    /\ hist' = [hist EXCEPT !.pushed_data = Append(@, loc[l].item)]
    /\ UNCHANGED <<frame_queues, loc>>
    /\ BrokerRest

\* lines 629-631: if frame_bytes: frame_queues[feed_id].put(frame_bytes, block=False)
FramePut(l) ==
    /\ pc[l] = "frame_put"
    /\ IF ~loc[l].encoded
       THEN /\ pc' = [pc EXCEPT ![l] = "idle"]
            /\ UNCHANGED <<frame_queues, hist>>
       ELSE IF full(frame_queues[l], frame_maxsize)
       THEN /\ pc' = [pc EXCEPT ![l] = "frame_evict"]
            /\ UNCHANGED <<frame_queues, hist>>
       ELSE /\ frame_queues' = [frame_queues EXCEPT ![l] = Append(@, loc[l].item)]
            /\ hist' = [hist EXCEPT !.pushed_frames = Append(@, loc[l].item)]
            /\ pc' = [pc EXCEPT ![l] = "idle"]
    /\ UNCHANGED <<data_queues, loc>>
    /\ BrokerRest

\* line 634
FrameEvict(l) ==
    /\ pc[l] = "frame_evict"
    /\ IF frame_queues[l] = <<>>
       THEN /\ pc' = [pc EXCEPT ![l] = "idle"]
            /\ hist' = [hist EXCEPT !.pushed_frames = Append(@, loc[l].item)]
            /\ UNCHANGED frame_queues
       ELSE /\ frame_queues' = [frame_queues EXCEPT ![l] = get_nowait(@)]
            /\ pc' = [pc EXCEPT ![l] = "frame_reput"]
            /\ UNCHANGED hist
    /\ UNCHANGED <<data_queues, loc>>
    /\ BrokerRest

\* line 635
FrameReput(l) ==
    /\ pc[l] = "frame_reput"
    /\ IF full(frame_queues[l], frame_maxsize)
       THEN UNCHANGED frame_queues
       ELSE frame_queues' = [frame_queues EXCEPT ![l] = Append(@, loc[l].item)]
    /\ pc' = [pc EXCEPT ![l] = "idle"]
    /\ hist' = [hist EXCEPT !.pushed_frames = Append(@, loc[l].item)]
    /\ UNCHANGED <<data_queues, loc>>
    /\ BrokerRest

\* generate_frames: frame_queues[feed_id].get(timeout=5) on a queue that has
\* a frame
generate_frames(l) ==
    /\ hist.pulls < MaxPulls
    /\ frame_queues[l] # <<>>
    /\ frame_queues' = [frame_queues EXCEPT ![l] = get_nowait(@)]
    /\ hist' = [hist EXCEPT !.pulls = @ + 1]
    /\ UNCHANGED <<data_queues, pc, loc>>
    /\ BrokerRest

\* get_data: data_queues[feed_id].get_nowait() on a queue that has a record
get_data(l) ==
    /\ hist.pulls < MaxPulls
    /\ data_queues[l] # <<>>
    /\ data_queues' = [data_queues EXCEPT ![l] = get_nowait(@)]
    /\ hist' = [hist EXCEPT !.pulls = @ + 1]
    /\ UNCHANGED <<frame_queues, pc, loc>>
    /\ BrokerRest

\* generate_frames, lines 683-690: get(timeout=5) on a queue that stays empty
\* for the five seconds raises queue.Empty and the generator breaks, which
\* ends the response stream; num is the number of frames the lane has
\* pushed so far
generate_frames_timeout(l) ==
    /\ frame_queues[l] = <<>>
    /\ call' = [ name |-> "generate_frames", lane |-> l,
                 num |-> Len(hist.pushed_frames), vec |-> <<>>, arg |-> <<>>,
                 ret |-> "stream ended" ]
    /\ UNCHANGED <<opt, detectors, now, video, frame_queues, data_queues,
                   pc, loc, hist>>

\* get_data, lines 747-758: the response to queue.Empty
default_response(feed_id) ==
    [ count |-> 0, green_time |-> 0, signal_state |-> "OBSERVATION",
      lane_id |-> feed_id, next_green_time |-> 0,
      observation |-> [in_progress |-> TRUE, time_elapsed |-> 0,
                       max_vehicles |-> 0],
      phase_info |-> "Analyzing traffic..." ]

\* get_data, lines 707 and 747-758: get_nowait() on an empty queue; num is
\* the number of records the lane has pushed so far
get_data_empty(l) ==
    /\ data_queues[l] = <<>>
    /\ call' = [ name |-> "get_data", lane |-> l,
                 num |-> Len(hist.pushed_data), vec |-> <<>>, arg |-> <<>>,
                 ret |-> default_response(l) ]
    /\ UNCHANGED <<opt, detectors, now, video, frame_queues, data_queues,
                   pc, loc, hist>>

NextBroker ==
    \/ Produce(BrokerLane)
    \/ DataPut(BrokerLane)
    \/ DataEvict(BrokerLane)
    \/ DataReput(BrokerLane)
    \/ FramePut(BrokerLane)
    \/ FrameEvict(BrokerLane)
    \/ FrameReput(BrokerLane)
    \/ generate_frames(BrokerLane)
    \/ get_data(BrokerLane)
    \/ generate_frames_timeout(BrokerLane)
    \/ get_data_empty(BrokerLane)

SpecBroker == InitBroker /\ [][NextBroker]_vars

(***************************************************************************)
(* SpecWorker: the iterations of one lane worker, each with a frame that    *)
(* process_frame handles or fails on, up to the push of the frame's data    *)
(* record and of the frame.  Nothing pulls from the queues.                 *)
(***************************************************************************)
WorkerLane == 1

WorkerTracked == { <<>>, <<OnLine(1)>> }

\* lines 618-625 and 630-637 run by the only producer of the queue: put,
\* and on queue.Full get_nowait and put
put_evicting(q, maxsize, item) ==
    IF full(q, maxsize) THEN Append(get_nowait(q), item) ELSE Append(q, item)

\* the record of lines 589-604: what the worker emits for a frame that
\* process_frame raised on
FailureRecord == [count |-> 0, green_time |-> 30, signal_state |-> "GREEN"]

\* the record with the lane's count and signal state in place of the
\* constants
held_record(o, d) ==
    [ count |-> Len(d.total_count),
      green_time |-> 30,
      signal_state |-> detector_get_signal_state(o, d.lane_id) ]

\* lines 586-637 for a frame process_frame returns from
WorkerFrame(l) ==
    \E tracked_objects \in WorkerTracked :
        /\ ProcessFrame(l, ResizedFrame, tracked_objects)
        /\ data_queues' = [data_queues EXCEPT ![l] =
                              put_evicting(@, data_maxsize, call'.ret)]
        /\ frame_queues' = [frame_queues EXCEPT ![l] =
                               put_evicting(@, frame_maxsize, "processed")]
        /\ UNCHANGED <<now, video, pc, loc, hist>>

\* lines 586-637 for a frame on which detection or tracking raises:
\* process_frame has run up to line 300, the handler of line 598 sets the
\* record
WorkerFrameFails(l) ==
    /\ opt.cycle_number < MaxCycles
    /\ \E d1 \in {first_frame_step(detectors[l], now, ResizedFrame)} :
       \E s2 \in {observation_step(opt, d1, now)} :
       \E s3 \in {cycle_step(s2.o, s2.d)} :
       \E data \in {FailureRecord} :
           /\ opt' = s3.o
           /\ detectors' = [detectors EXCEPT ![l] = s3.d]
           /\ call' = [ name |-> "process_frame raised", lane |-> l,
                        num |-> s3.elapsed_time, vec |-> s3.timings,
                        arg |-> <<>>, ret |-> data ]
           /\ data_queues' = [data_queues EXCEPT ![l] =
                                 put_evicting(@, data_maxsize, data)]
    /\ frame_queues' = [frame_queues EXCEPT ![l] =
                           put_evicting(@, frame_maxsize, "unprocessed")]
    /\ UNCHANGED <<now, video, pc, loc, hist>>

NextWorker == WorkerFrame(WorkerLane) \/ WorkerFrameFails(WorkerLane)

SpecWorker == InitCounter /\ [][NextWorker]_vars

(***************************************************************************)
(* SpecMetrics: the junction of SpecSignal on empty roads, each worker      *)
(* pushing the record and the frame of every iteration, and a client that   *)
(* polls get_data for one lane.                                             *)
(***************************************************************************)
MetricsLane == 0

\* get_data, lines 709-745: the response built from a record taken from
\* the lane's data queue
get_data_response(o, feed_id, data) ==
    LET observing == o.observation_enabled
        signal_state == IF observing THEN "OBSERVATION" ELSE data.signal_state
    IN  [ count |-> data.count,
          green_time |-> IF observing THEN 0 ELSE data.green_time,
          signal_state |-> signal_state,
          lane_id |-> feed_id,
          next_green_time |-> IF observing THEN 0
                              ELSE get_next_green_time(o, feed_id),
          observation |-> IF observing
                          THEN [ in_progress |-> ~PyGet(o.lanes_ready, feed_id),
                                 time_elapsed |-> PyGet(o.lane_observation_times, feed_id),
                                 max_vehicles |-> PyGet(o.observation_vehicle_counts, feed_id) ]
                          ELSE [ in_progress |-> FALSE, time_elapsed |-> None,
                                 max_vehicles |-> None ],
          phase_info |-> IF signal_state = "OBSERVATION" THEN "Analyzing traffic..."
                         ELSE IF signal_state = "RED" THEN "Opposite lanes GREEN"
                         ELSE "This lane GREEN" ]

InitMetrics ==
    /\ opt = OptInit
    /\ detectors = [l \in Lanes |-> [NewDetector(l) EXCEPT !.fps = SignalFps]]
    /\ now = Epoch
    /\ video = NoVideo
    /\ frame_queues = [l \in Lanes |-> <<>>]
    /\ data_queues = [l \in Lanes |-> <<>>]
    /\ call = NoCall
    /\ pc = [l \in Lanes |-> "idle"]
    /\ loc = [l \in Lanes |-> <<>>]
    /\ hist = [pulls |-> 0]

\* an iteration of a lane worker, scheduled as in SignalFrame, with its
\* pushes
MetricsFrame ==
    \E lane \in Lanes :
        /\ opt.observation_enabled =>
               \/ ~detectors[lane].frame_analyzed
               \/ now > Epoch /\ ~PyGet(opt.lanes_ready, lane)
        /\ ProcessFrame(lane, ResizedFrame, video[lane])
        /\ data_queues' = [data_queues EXCEPT ![lane] =
                              put_evicting(@, data_maxsize, call'.ret)]
        /\ frame_queues' = [frame_queues EXCEPT ![lane] =
                               put_evicting(@, frame_maxsize, "processed")]
        /\ UNCHANGED <<now, video, pc, loc, hist>>

\* get_data(feed_id), lines 700-758; num is the number of the poll and arg
\* the mode of the junction when the poll is answered
MetricsPoll(feed_id) ==
    /\ hist.pulls < MaxPulls
    /\ hist' = [hist EXCEPT !.pulls = @ + 1]
    /\ IF data_queues[feed_id] = <<>>
       THEN /\ call' = [ name |-> "get_data", lane |-> feed_id,
                         num |-> hist.pulls + 1, vec |-> <<>>,
                         arg |-> IF opt.observation_enabled THEN "observing"
                                 ELSE "controlling",
                         ret |-> default_response(feed_id) ]
            /\ UNCHANGED data_queues
       ELSE /\ call' = [ name |-> "get_data", lane |-> feed_id,
                         num |-> hist.pulls + 1, vec |-> <<>>,
                         arg |-> IF opt.observation_enabled THEN "observing"
                                 ELSE "controlling",
                         ret |-> get_data_response(opt, feed_id,
                                                   Head(data_queues[feed_id])) ]
            /\ data_queues' = [data_queues EXCEPT ![feed_id] = get_nowait(@)]
    /\ UNCHANGED <<opt, detectors, now, video, frame_queues, pc, loc>>

NextMetrics == MetricsFrame \/ SignalTick \/ MetricsPoll(MetricsLane)

SpecMetrics == InitMetrics /\ [][NextMetrics]_vars

(***************************************************************************)
(* SpecStartup: initialize_global_optimizer called from several threads     *)
(* (request handlers of the threaded server, lines 705 and 847; the main    *)
(* thread, line 1094).  The module binds global_optimizer to None when it   *)
(* is imported (line 70); run as a script it has made one call before any   *)
(* other thread exists.  opt holds the binding of the global and the number *)
(* of IntelligentTrafficOptimizer objects constructed so far (an object is  *)
(* known by its number); hist.installed lists the objects bound to the      *)
(* global, in order.  There is no lock: a thread can be preempted between   *)
(* the test of line 411, the constructor and the store of line 413.         *)
(***************************************************************************)
Callers == 0..2

InitStartup ==
    /\ opt \in { [global_optimizer |-> None, instances |-> 0],
                 [global_optimizer |-> 1, instances |-> 1] }
    /\ hist = [installed |-> IF opt.global_optimizer = None THEN <<>> ELSE <<1>>]
    /\ now = Epoch
    /\ detectors = [l \in Lanes |-> NewDetector(l)]
    /\ video = NoVideo
    /\ frame_queues = [l \in Lanes |-> <<>>]
    /\ data_queues = [l \in Lanes |-> <<>>]
    /\ call = NoCall
    /\ pc = [t \in Callers |-> "idle"]
    /\ loc = [t \in Callers |-> [instance |-> None]]

\* line 411: if global_optimizer is None
StartupTest(t) ==
    /\ pc[t] = "idle"
    /\ pc' = [pc EXCEPT ![t] = IF opt.global_optimizer = None THEN "construct"
                               ELSE "return"]
    /\ UNCHANGED <<opt, detectors, now, video, frame_queues, data_queues, call, loc, hist>>

\* line 413, right-hand side: IntelligentTrafficOptimizer()
StartupConstruct(t) ==
    /\ pc[t] = "construct"
    /\ opt' = [opt EXCEPT !.instances = @ + 1]
    /\ loc' = [loc EXCEPT ![t] = [instance |-> opt.instances + 1]]
    /\ pc' = [pc EXCEPT ![t] = "store"]
    /\ UNCHANGED <<detectors, now, video, frame_queues, data_queues, call, hist>>

\* line 413, the store to the global
StartupStore(t) ==
    /\ pc[t] = "store"
    /\ opt' = [opt EXCEPT !.global_optimizer = loc[t].instance]
    /\ hist' = [hist EXCEPT !.installed = Append(@, loc[t].instance)]
    /\ pc' = [pc EXCEPT ![t] = "return"]
    /\ UNCHANGED <<detectors, now, video, frame_queues, data_queues, call, loc>>

\* line 414: return global_optimizer
StartupReturn(t) ==
    /\ pc[t] = "return"
    /\ call' = CalledRet("initialize_global_optimizer", t, 0, <<>>,
                         opt.global_optimizer)
    /\ pc' = [pc EXCEPT ![t] = "done"]
    /\ UNCHANGED <<opt, detectors, now, video, frame_queues, data_queues, loc, hist>>

NextStartup ==
    \E t \in Callers :
        StartupTest(t) \/ StartupConstruct(t) \/ StartupStore(t) \/ StartupReturn(t)

SpecStartup == InitStartup /\ [][NextStartup]_vars

(***************************************************************************)
(* SpecRace: the lane workers as threads.  A frame of process_frame is      *)
(* taken one access to the shared optimizer at a time: the statements of    *)
(* set_cycle_timing and the two reads of get_green_time are separate steps  *)
(* that the workers of the other lanes interleave with.  The clock stands   *)
(* still, so the junction stays in observation, where process_frame runs    *)
(* its cycle logic all the same.                                            *)
(***************************************************************************)
RaceLanes == 0..2

RaceIdle == [elapsed_time |-> 0, elapsed_list |-> 0, predicted |-> <<>>,
             cycle_number |-> 0, green_duration |-> 0, timings_write |-> 0]

InstallSteps == {"set_timings", "set_elapsed", "load_cycle", "store_cycle"}

\* history: writes counts the assignments made so far to current_cycle_timings
\* and to phase_elapsed_times by set_cycle_timing; boundaries counts the
\* cycles the coordinator lane has completed; concurrent records that another
\* lane completed its cycle while the coordinator was installing; read is
\* the last pair read by get_green_time, as the write each value came from
RaceHist ==
    [ timings_writes |-> 0, elapsed_writes |-> 0, boundaries |-> 0,
      concurrent |-> FALSE, read |-> [timings_write |-> 0, elapsed_write |-> 0] ]

InitRace ==
    /\ opt = OptInit
    /\ detectors = [l \in Lanes |-> NewDetector(l)]
    /\ now = Epoch
    /\ video = NoVideo
    /\ frame_queues = [l \in Lanes |-> <<>>]
    /\ data_queues = [l \in Lanes |-> <<>>]
    /\ call = NoCall
    /\ pc = [l \in Lanes |-> "idle"]
    /\ loc = [l \in Lanes |-> RaceIdle]
    /\ hist = RaceHist

RaceRest == UNCHANGED <<now, video, frame_queues, data_queues>>

\* process_frame, lines 251-284, and update_phase_elapsed_time up to the
\* load of self.phase_elapsed_times in line 194: elapsed_list is the list
\* object loaded, named by the number of lists set_cycle_timing has
\* assigned so far
RaceAdvance(l) ==
    /\ pc[l] = "idle"
    /\ opt.cycle_number < MaxCycles
    /\ \E d1 \in {first_frame_step(detectors[l], now, ResizedFrame)} :
       \E s2 \in {observation_step(opt, d1, now)} :
       \E frame_count \in {s2.d.frame_count + 1} :
           /\ detectors' = [detectors EXCEPT ![l] = [s2.d EXCEPT !.frame_count = frame_count]]
           /\ opt' = s2.o
           /\ loc' = [loc EXCEPT ![l].elapsed_time = (frame_count * FrameSeconds) \div s2.d.fps,
                                 ![l].elapsed_list = hist.elapsed_writes]
    /\ pc' = [pc EXCEPT ![l] = "store_elapsed"]
    /\ UNCHANGED <<call, hist>>
    /\ RaceRest

\* update_phase_elapsed_time, line 194: the store into the list loaded.  A
\* list that set_cycle_timing has replaced meanwhile is no longer the
\* optimizer's, and the store into it leaves the optimizer as it is
RaceStoreElapsed(l) ==
    /\ pc[l] = "store_elapsed"
    /\ opt' = IF loc[l].elapsed_list = hist.elapsed_writes
              THEN update_phase_elapsed_time(opt, l, loc[l].elapsed_time)
              ELSE opt
    /\ pc' = [pc EXCEPT ![l] = "check"]
    /\ UNCHANGED <<detectors, call, loc, hist>>
    /\ RaceRest

\* lines 286-297: the cycle-complete test against the timings as they are now
RaceCheck(l) ==
    /\ pc[l] = "check"
    /\ IF cycle_complete(loc[l].elapsed_time, opt.current_cycle_timings)
       THEN IF coordinator(l)
            THEN /\ loc' = [loc EXCEPT ![l].predicted =
                               predict_next_cycle_timings(
                                   [i \in Lanes |-> Len(detectors[l].total_count) \div 30])]
                 /\ pc' = [pc EXCEPT ![l] = "set_timings"]
                 /\ hist' = [hist EXCEPT !.boundaries = IF l = 0 THEN @ + 1 ELSE @]
                 /\ UNCHANGED detectors
            ELSE /\ detectors' = [detectors EXCEPT ![l].frame_count = 0]
                 /\ pc' = [pc EXCEPT ![l] = "read_duration"]
                 /\ hist' = [hist EXCEPT !.concurrent = @ \/ pc[0] \in InstallSteps]
                 /\ UNCHANGED loc
       ELSE /\ pc' = [pc EXCEPT ![l] = "read_duration"]
            /\ UNCHANGED <<detectors, loc, hist>>
    /\ UNCHANGED <<opt, call>>
    /\ RaceRest

\* set_cycle_timing, line 257
RaceSetTimings(l) ==
    /\ pc[l] = "set_timings"
    /\ IF Len(loc[l].predicted) = 4
       THEN /\ opt' = [opt EXCEPT !.current_cycle_timings = loc[l].predicted]
            /\ hist' = [hist EXCEPT !.timings_writes = @ + 1]
            /\ pc' = [pc EXCEPT ![l] = "set_elapsed"]
       ELSE /\ pc' = [pc EXCEPT ![l] = "store_cycle"]
            /\ UNCHANGED <<opt, hist>>
    /\ UNCHANGED <<detectors, call, loc>>
    /\ RaceRest

\* set_cycle_timing, line 259
RaceSetElapsed(l) ==
    /\ pc[l] = "set_elapsed"
    /\ opt' = [opt EXCEPT !.phase_elapsed_times = <<0, 0, 0, 0>>]
    /\ hist' = [hist EXCEPT !.elapsed_writes = @ + 1]
    /\ pc' = [pc EXCEPT ![l] = "load_cycle"]
    /\ UNCHANGED <<detectors, call, loc>>
    /\ RaceRest

\* set_cycle_timing, line 260: self.cycle_number += 1 reads ...
RaceLoadCycle(l) ==
    /\ pc[l] = "load_cycle"
    /\ loc' = [loc EXCEPT ![l].cycle_number = opt.cycle_number]
    /\ pc' = [pc EXCEPT ![l] = "store_cycle"]
    /\ UNCHANGED <<opt, detectors, call, hist>>
    /\ RaceRest

\* ... and writes; then process_frame, line 300, restarts the frame counter
RaceStoreCycle(l) ==
    /\ pc[l] = "store_cycle"
    /\ opt' = IF Len(loc[l].predicted) = 4
              THEN [opt EXCEPT !.cycle_number = loc[l].cycle_number + 1]
              ELSE opt
    /\ detectors' = [detectors EXCEPT ![l].frame_count = 0]
    /\ pc' = [pc EXCEPT ![l] = "read_duration"]
    /\ UNCHANGED <<call, loc, hist>>
    /\ RaceRest

\* get_green_time, line 242: green_duration = self.current_cycle_timings[lane_id]
RaceReadDuration(l) ==
    /\ pc[l] = "read_duration"
    /\ loc' = [loc EXCEPT ![l].green_duration = PyGet(opt.current_cycle_timings, l),
                          ![l].timings_write = hist.timings_writes]
    /\ pc' = [pc EXCEPT ![l] = "read_elapsed"]
    /\ UNCHANGED <<opt, detectors, call, hist>>
    /\ RaceRest

\* get_green_time, lines 243-247: elapsed_time = self.phase_elapsed_times[lane_id]
\* and the result; then the rest of the frame
RaceReadElapsed(l) ==
    /\ pc[l] = "read_elapsed"
    /\ \E elapsed_time \in {PyGet(opt.phase_elapsed_times, l)} :
           call' = [ name |-> "get_green_time", lane |-> l,
                     num |-> elapsed_time, vec |-> opt.current_cycle_timings,
                     arg |-> loc[l].green_duration,
                     ret |-> IF elapsed_time < loc[l].green_duration
                             THEN Max(0, loc[l].green_duration - elapsed_time)
                             ELSE 0 ]
    /\ hist' = [hist EXCEPT !.read = [timings_write |-> loc[l].timings_write,
                                      elapsed_write |-> hist.elapsed_writes]]
    /\ opt' = tracking_step(opt, detectors[l], video[l])
    /\ detectors' = [detectors EXCEPT ![l] = counting_step(@, video[l])]
    /\ loc' = [loc EXCEPT ![l] = RaceIdle]
    /\ pc' = [pc EXCEPT ![l] = "idle"]
    /\ RaceRest

NextRace ==
    \E l \in RaceLanes :
        \/ RaceAdvance(l)
        \/ RaceStoreElapsed(l)
        \/ RaceCheck(l)
        \/ RaceSetTimings(l)
        \/ RaceSetElapsed(l)
        \/ RaceLoadCycle(l)
        \/ RaceStoreCycle(l)
        \/ RaceReadDuration(l)
        \/ RaceReadElapsed(l)

SpecRace == InitRace /\ [][NextRace]_vars

(***************************************************************************)
(* Properties of the phase operations (SpecPhase)                           *)
(***************************************************************************)
ReportedStates == [i \in 1..4 |-> detector_get_signal_state(opt, i - 1)]

\* C1: for every lane 0..3 the reported signal state is OBSERVATION while
\* observation mode is true; otherwise, with g the lane's green duration and
\* e its elapsed time, RED if g = 0, GREEN if e < g, YELLOW if g <= e < g + 3
\* and RED if e >= g + 3.  Durations [30,22,0,0] with all elapsed 10 give
\* [GREEN,GREEN,RED,RED], and with all elapsed 31 give [YELLOW,RED,RED,RED].
C1_SignalStateFromTiming ==
    /\ \A lane \in Lanes :
          LET g == opt.current_cycle_timings[lane + 1]
              e == opt.phase_elapsed_times[lane + 1]
              reported == ReportedStates[lane + 1]
          IN  /\ opt.observation_enabled => reported = "OBSERVATION"
              /\ (~opt.observation_enabled /\ g = 0) => reported = "RED"
              /\ (~opt.observation_enabled /\ g # 0 /\ e < g) => reported = "GREEN"
              /\ (~opt.observation_enabled /\ g # 0 /\ g <= e /\ e < g + 3)
                    => reported = "YELLOW"
              /\ (~opt.observation_enabled /\ g # 0 /\ e >= g + 3) => reported = "RED"
    /\ (/\ ~opt.observation_enabled
        /\ opt.current_cycle_timings = <<30, 22, 0, 0>>
        /\ opt.phase_elapsed_times = <<10, 10, 10, 10>>)
          => ReportedStates = <<"GREEN", "GREEN", "RED", "RED">>
    /\ (/\ ~opt.observation_enabled
        /\ opt.current_cycle_timings = <<30, 22, 0, 0>>
        /\ opt.phase_elapsed_times = <<31, 31, 31, 31>>)
          => ReportedStates = <<"YELLOW", "RED", "RED", "RED">>

\* controlling mode, durations [30,22,0,0], every lane at 31 s: lane 0 is in
\* its yellow window, lane 1 is past it
C1_Witness ==
    /\ ~opt.observation_enabled
    /\ opt.current_cycle_timings = <<30, 22, 0, 0>>
    /\ opt.phase_elapsed_times = <<31, 31, 31, 31>>
    /\ ReportedStates = <<"YELLOW", "RED", "RED", "RED">>

\* C3: set_cycle_timing called with a vector of 4 durations leaves the
\* timing vector equal to that vector, all four elapsed times 0 and the
\* cycle counter exactly 1 higher than before the call.
C3_InstallReplacesResetsIncrements ==
    [][ (call'.name = "set_cycle_timing" /\ Len(call'.vec) = 4)
          => /\ opt'.current_cycle_timings = call'.vec
             /\ opt'.phase_elapsed_times = <<0, 0, 0, 0>>
             /\ opt'.cycle_number = opt.cycle_number + 1 ]_vars

\* a second install of a 4-vector has just been made
C3_Witness ==
    /\ call.name = "set_cycle_timing"
    /\ Len(call.vec) = 4
    /\ opt.cycle_number = 2
    /\ opt.current_cycle_timings = call.vec
    /\ opt.phase_elapsed_times = <<0, 0, 0, 0>>

(***************************************************************************)
(* Properties of the observation operations (SpecObs)                       *)
(***************************************************************************)
ReadyCount == Cardinality({i \in 1..4 : opt.lanes_ready[i]})

\* C2: over any sequence of observation ticks, observation mode is false
\* only in states where all four lanes are ready (three ready and one not
\* ready keeps observation), the tick that makes the fourth lane ready flips
\* it, and once false it never returns to true.
C2_ModeFlipsOnceWhenAllReady ==
    /\ [](~opt.observation_enabled => ReadyCount = 4)
    /\ [](ReadyCount = 3 => opt.observation_enabled)
    /\ [][ (ReadyCount = 3 /\ ReadyCount' = 4)
             => (opt.observation_enabled /\ ~opt'.observation_enabled) ]_vars
    /\ [][ ~opt.observation_enabled => ~opt'.observation_enabled ]_vars

\* the tick of the fourth lane has just ended observation
C2_Witness ==
    /\ call.name = "update_observation_time"
    /\ call.num >= 30
    /\ ReadyCount = 4
    /\ ~opt.observation_enabled

\* C9: after any sequence of update_observation_time calls, every lane's
\* stored observation time is at most the settling window length, 30 s.
C9_ObservationTimeCapped ==
    \A lane \in Lanes : opt.lane_observation_times[lane + 1] <= 30

\* a tick of 45 s was stored as 30 s
C9_Witness ==
    /\ call.name = "update_observation_time"
    /\ call.num = 45
    /\ call.lane \in Lanes
    /\ opt.lane_observation_times[call.lane + 1] = 30

\* C6: on every lane each track identifier is in the list of counted ids at
\* most once, the list is only ever extended, and the count a frame reports
\* is the number of distinct ids credited: an id raises the count at most
\* once, whatever the frames and lines it is seen on
Occurrences(list, x) == Cardinality({i \in 1..Len(list) : list[i] = x})

IsPrefix(a, b) == Len(a) <= Len(b) /\ SubSeq(b, 1, Len(a)) = a

C6_TrackIdCountedOnce ==
    /\ [](/\ \A l \in Lanes : \A i \in 1..Len(detectors[l].total_count) :
                 Occurrences(detectors[l].total_count, detectors[l].total_count[i]) = 1
          /\ call.name = "process_frame" =>
                 call.ret.count =
                     Cardinality({detectors[call.lane].total_count[i] :
                                     i \in 1..Len(detectors[call.lane].total_count)}))
    /\ [][\A l \in Lanes : IsPrefix(detectors[l].total_count, detectors'[l].total_count)]_vars

\* a track id seen inside a band in two frames or more, in the last frame on
\* both lines at once, and counted once
C6_Witness ==
    /\ call.name = "process_frame"
    /\ \E i \in 1..Len(call.arg) :
         LET result == call.arg[i]
             limits == detectors[call.lane].limit_lines
         IN  /\ InBand(limits[1], CenterX(result), CenterY(result))
             /\ InBand(limits[2], CenterX(result), CenterY(result))
             /\ result[5] \in DOMAIN hist.band_frames
             /\ hist.band_frames[result[5]] = 2
             /\ Occurrences(detectors[call.lane].total_count, result[5]) = 1

\* C8: a frame completes the lane's cycle (its frame counter restarts at 0)
\* exactly when the lane's elapsed time has reached the sum of the cycle's
\* durations plus 12; for the durations [30, 22, 0, 0] that is from 64 on
C8_CycleCompleteAtSumPlusTwelve ==
    /\ call.name = "process_frame" =>
           (detectors[call.lane].frame_count = 0
                <=> call.num >= Sum(call.vec) + 12)
    /\ \A e \in 0..(2 * 64) : cycle_complete(e, SeedTimings) <=> e >= 64

\* a frame at elapsed time 64 exactly under the durations [30, 22, 0, 0]
C8_Witness ==
    /\ call.name = "process_frame"
    /\ call.vec = SeedTimings
    /\ call.num = 64
    /\ detectors[call.lane].frame_count = 0

\* C10: a lane's frame queue never holds more than 2 entries and its data
\* queue never more than 5; while nothing has been pulled, each queue holds,
\* between two pushes, the last 2 (the last 5) items pushed, in push order
C10_QueueKeepsLastN ==
    \A l \in Lanes :
        /\ Len(frame_queues[l]) <= 2
        /\ Len(data_queues[l]) <= 5
        /\ (l = BrokerLane /\ hist.pulls = 0) =>
               /\ pc[l] \notin {"data_evict", "data_reput"} =>
                      data_queues[l] = LastN(hist.pushed_data, 5)
               /\ pc[l] \notin {"frame_evict", "frame_reput"} =>
                      frame_queues[l] = LastN(hist.pushed_frames, 2)

\* nothing pulled, 7 records and 4 frames pushed: the queues hold the last 5
\* records and the last 2 frames
C10_Witness ==
    /\ hist.pulls = 0
    /\ pc[BrokerLane] = "idle"
    /\ Len(hist.pushed_data) = 7
    /\ Len(hist.pushed_frames) = 4
    /\ data_queues[BrokerLane] = <<3, 4, 5, 6, 7>>
    /\ Len(frame_queues[BrokerLane]) = 2

\* C4: a cycle boundary is a completed cycle of the coordinator lane.  In
\* every interleaving of the lane workers the cycle counter is the number of
\* boundaries so far, less the one whose install is under way, and a step
\* raises it by 1 at most
C4_OneIncrementPerBoundary ==
    /\ [](opt.cycle_number =
              hist.boundaries - (IF pc[0] \in InstallSteps THEN 1 ELSE 0))
    /\ [][opt'.cycle_number \in {opt.cycle_number, opt.cycle_number + 1}]_vars

\* the coordinator has finished an install during which another lane
\* completed its own cycle
C4_Witness ==
    /\ hist.concurrent
    /\ pc[0] \notin InstallSteps
    /\ hist.boundaries = 1
    /\ opt.cycle_number = 1

\* C5: the duration and the elapsed time get_green_time has read belong
\* together: between the write of current_cycle_timings the duration came
\* from and the read of the elapsed time, set_cycle_timing has reset the
\* elapsed times as often as it has replaced the timings
C5_NoTornRead ==
    call.name = "get_green_time" =>
        hist.read.timings_write = hist.read.elapsed_write

(***************************************************************************)
(* Properties of the signal sequence (SpecSignal)                           *)
(***************************************************************************)
Rank(state) == CASE state = "GREEN" -> 1 [] state = "YELLOW" -> 2 [] OTHER -> 3

\* C11: in controlling mode, a step that leaves the cycle counter as it is
\* moves no lane's state backwards in the order GREEN, YELLOW, RED
C11_SignalOnlyAdvances ==
    [][(~opt.observation_enabled /\ opt'.cycle_number = opt.cycle_number) =>
           \A l \in Lanes :
               Rank(get_signal_state(opt', l)) >= Rank(get_signal_state(opt, l))]_vars

\* C12: a step after which a lane's elapsed time is smaller than before is a
\* step that installs a cycle
C12_ElapsedDropsOnlyAtInstall ==
    [][\A l \in Lanes :
           PyGet(opt'.phase_elapsed_times, l) < PyGet(opt.phase_elapsed_times, l) =>
               opt'.cycle_number = opt.cycle_number + 1]_vars

\* C13: the first elapsed time a lane stores after a cycle install (its entry
\* is still the 0 of the install) is the time of one frame
C13_RestartsFromZeroAfterInstall ==
    [][\A l \in Lanes :
           (/\ opt.cycle_number > 0
            /\ PyGet(opt.phase_elapsed_times, l) = 0
            /\ PyGet(opt'.phase_elapsed_times, l) # 0) =>
               PyGet(opt'.phase_elapsed_times, l) = FrameSeconds \div detectors[l].fps]_vars

\* C14: a step that changes the cycle timings or the cycle counter is a
\* frame of lane 0; a frame of another lane, also one that completes that
\* lane's cycle, leaves the timings, the counter and the elapsed times of
\* the other lanes as they are
C14_OnlyLeaderInstalls ==
    [][/\ (\/ opt'.current_cycle_timings # opt.current_cycle_timings
           \/ opt'.cycle_number # opt.cycle_number) =>
              (call'.name = "process_frame" /\ call'.lane = 0)
       /\ (call'.name = "process_frame" /\ call'.lane # 0) =>
              /\ opt'.current_cycle_timings = opt.current_cycle_timings
              /\ opt'.cycle_number = opt.cycle_number
              /\ \A m \in Lanes \ {call'.lane} :
                     PyGet(opt'.phase_elapsed_times, m) = PyGet(opt.phase_elapsed_times, m)]_vars

\* a lane other than lane 0 has just completed its cycle under the seed
\* timings, before any install
C14_Witness ==
    /\ call.name = "process_frame"
    /\ call.lane # 0
    /\ cycle_complete(call.num, call.vec)
    /\ detectors[call.lane].frame_count = 0
    /\ opt.cycle_number = 0
    /\ opt.current_cycle_timings = SeedTimings

\* C15: while observation mode is true no elapsed time has been advanced and
\* no cycle installed: the elapsed times are 0, the cycle counter is 0 and
\* the timings are the seed [30, 22, 0, 0]
C15_ObservationOnlyTicks ==
    opt.observation_enabled =>
        /\ opt.phase_elapsed_times = <<0, 0, 0, 0>>
        /\ opt.cycle_number = 0
        /\ opt.current_cycle_timings = <<30, 22, 0, 0>>

\* C16: at the step that ends observation every lane with a green duration
\* has an elapsed time below it, and the frame with which a lane first
\* reports a state other than OBSERVATION (the frame that ends observation,
\* or the lane's first frame after it) reports GREEN if the lane has a green
\* duration
C16_GreenAfterObservation ==
    [][/\ (opt.observation_enabled /\ ~opt'.observation_enabled) =>
              \A m \in Lanes :
                  PyGet(opt'.current_cycle_timings, m) # 0 =>
                      PyGet(opt'.phase_elapsed_times, m) < PyGet(opt'.current_cycle_timings, m)
       /\ (/\ call'.name = "process_frame"
           /\ ~opt'.observation_enabled
           /\ \/ opt.observation_enabled
              \/ detectors[call'.lane].observation_start_time # None
           /\ PyGet(opt'.current_cycle_timings, call'.lane) # 0) =>
              call'.ret.signal_state = "GREEN"]_vars

\* C17: once a lane is ready, its stored observation time and its peak
\* vehicle count are the same after every step
C17_ReadyRecordFrozen ==
    [][\A l \in Lanes :
           PyGet(opt.lanes_ready, l) =>
               /\ PyGet(opt'.lane_observation_times, l) = PyGet(opt.lane_observation_times, l)
               /\ PyGet(opt'.observation_vehicle_counts, l) =
                      PyGet(opt.observation_vehicle_counts, l)]_vars

\* C18: the cycle timings always have 4 entries, each in 0..120, and the
\* bucket table yields no duration outside 0..120
C18_TimingsWithinBounds ==
    /\ Len(opt.current_cycle_timings) = 4
    /\ \A i \in 1..Len(opt.current_cycle_timings) :
           opt.current_cycle_timings[i] \in 0..120
    /\ \A c \in PredictCountArgs : predict_duration(c) \in 0..max_phase_duration

\* the lane workers have installed the timings predicted from a lane's count
C18_Witness ==
    /\ opt.cycle_number > 0
    /\ opt.current_cycle_timings = <<15, 15, 15, 15>>
    /\ call.name = "process_frame"
    /\ call.lane = 0

\* C19: an operation called with a lane identifier outside 0..3 leaves the
\* optimizer as it was
C19_InvalidLaneRejected ==
    [][(call'.name = "update_phase_elapsed_time" /\ call'.lane \notin Lanes) =>
           opt' = opt]_vars

\* C20: after a frame on which detection or tracking failed, the newest
\* record of the lane's data queue has the lane's count, the lane's signal
\* state and the default green time
C20_FailureEmitsHeldState ==
    call.name = "process_frame raised" =>
        /\ data_queues[call.lane] # <<>>
        /\ data_queues[call.lane][Len(data_queues[call.lane])] =
               held_record(opt, detectors[call.lane])


\* C21: a push that has returned has put its item into the queue: at the step
\* that ends the push of a record or of an encoded frame, the item pushed is
\* in the lane's queue, whatever the consumers pulled meanwhile
C21_PushKeepsItem ==
    [][ \A l \in Lanes :
          /\ ( /\ pc[l] \in {"data_put", "data_evict", "data_reput"}
               /\ pc'[l] \notin {"data_put", "data_evict", "data_reput"} )
                 => Contains(data_queues'[l], loc[l].item)
          /\ ( /\ pc[l] \in {"frame_put", "frame_evict", "frame_reput"}
               /\ loc[l].encoded
               /\ pc'[l] \notin {"frame_put", "frame_evict", "frame_reput"} )
                 => Contains(frame_queues'[l], loc[l].item) ]_vars

\* C22: a read that finds nothing on a lane whose worker has produced before
\* (the lane has stalled) ends, and with an outcome other than the one the
\* same read gives on a lane that has produced nothing yet: the ended
\* stream for generate_frames, default_response for get_data
C22_StalledIsDistinct ==
    /\ (call.name = "generate_frames" /\ call.num > 0) =>
           call.ret # "stream ended"
    /\ (call.name = "get_data" /\ call.num > 0) =>
           call.ret # default_response(call.lane)

\* C23: the remaining green of a lane with duration g and elapsed time e is
\* g - e when e < g and 0 otherwise, so it lies in 0..g
C23_RemainingGreen ==
    \A lane \in Lanes :
        LET g == opt.current_cycle_timings[lane + 1]
            e == opt.phase_elapsed_times[lane + 1]
            r == detector_get_green_time(opt, lane)
        IN  /\ r = (IF e < g THEN g - e ELSE 0)
            /\ r >= 0
            /\ r <= g

\* lane 0 is 10 s into a green of 30 s (20 s remain) and lane 1 is 31 s into
\* a cycle in which its green lasts 22 s (nothing remains)
C23_Witness ==
    /\ call.name = "update_phase_elapsed_time"
    /\ opt.current_cycle_timings = SeedTimings
    /\ opt.phase_elapsed_times[1] = 10
    /\ opt.phase_elapsed_times[2] = 31
    /\ detector_get_green_time(opt, 0) = 20
    /\ detector_get_green_time(opt, 1) = 0

\* C24: the time to the next green of a lane is 0 while the lane is GREEN or
\* YELLOW; for a RED lane it is the larger remaining green of the two lanes
\* of the other phase group, plus 3 s of yellow and 2 s of all-red, hence 5
\* at least
C24_NextGreenEta ==
    \A lane \in Lanes :
        LET st == detector_get_signal_state(opt, lane)
            eta == get_next_green_time(opt, lane)
            rem(l) == LET g == opt.current_cycle_timings[l + 1]
                          e == opt.phase_elapsed_times[l + 1]
                      IN  IF e < g THEN g - e ELSE 0
            a == IF lane \in {0, 2} THEN 1 ELSE 0
            b == IF lane \in {0, 2} THEN 3 ELSE 2
        IN  /\ st \in {"GREEN", "YELLOW"} => eta = 0
            /\ st = "RED" => /\ eta = Max(rem(a), rem(b)) + 3 + 2
                             /\ eta >= 5

\* seed timings: lane 0 is GREEN (eta 0); lane 2 is RED while lane 1 has 12 s
\* of green left, so its green is 17 s away; lane 1 sees lanes 0 and 2
C24_Witness ==
    /\ call.name = "update_phase_elapsed_time"
    /\ ~opt.observation_enabled
    /\ opt.current_cycle_timings = SeedTimings
    /\ opt.phase_elapsed_times = <<31, 10, 0, 0>>
    /\ get_next_green_time(opt, 0) = 0
    /\ get_next_green_time(opt, 2) = 17
    /\ get_next_green_time(opt, 3) = 5

\* C25: in every interleaving of the lane workers, the elapsed-time update
\* of a lane leaves the entries of the other lanes and every other field of
\* the optimizer as they are and, unless an install has replaced the list
\* since the update began, stores the lane's value in the lane's entry; an
\* entry changes only by its own lane's update or by the reset of an install
C25_UpdateWritesOwnEntry ==
    [][ \A l \in RaceLanes :
          /\ (pc[l] = "store_elapsed" /\ pc'[l] = "check") =>
                 /\ opt' = [opt EXCEPT !.phase_elapsed_times = opt'.phase_elapsed_times]
                 /\ \A k \in Lanes \ {l} :
                        opt'.phase_elapsed_times[k + 1] = opt.phase_elapsed_times[k + 1]
                 /\ loc[l].elapsed_list = hist.elapsed_writes =>
                        opt'.phase_elapsed_times[l + 1] = loc[l].elapsed_time
          /\ opt'.phase_elapsed_times[l + 1] # opt.phase_elapsed_times[l + 1] =>
                 \/ pc[l] = "store_elapsed" /\ pc'[l] = "check"
                 \/ \E k \in RaceLanes : pc[k] = "set_elapsed" /\ pc'[k] = "load_cycle" ]_vars

\* lane 0 is inside an install; lane 2 has stored its elapsed time during the
\* install while lane 1's entry still holds what lane 1 stored, and lane 1
\* is between the load and the store of its next update
C25_Witness ==
    /\ pc[0] \in InstallSteps
    /\ pc[1] = "store_elapsed"
    /\ pc[2] = "check"
    /\ loc[2].elapsed_time > 0
    /\ opt.phase_elapsed_times[3] = loc[2].elapsed_time
    /\ opt.phase_elapsed_times[2] > 0
    /\ loc[1].elapsed_time > opt.phase_elapsed_times[2]

C27_InstallRecurs ==
    \A n \in 0..(MaxCycles - 1) :
        (~opt.observation_enabled /\ opt.cycle_number = n) ~> (opt.cycle_number > n)

\* the junction has installed MaxCycles cycles although the workers of lanes
\* 1, 2 and 3 have processed no frame since observation ended
C27_Witness ==
    /\ ~opt.observation_enabled
    /\ opt.cycle_number = MaxCycles
    /\ call.name = "process_frame"
    /\ call.lane = 0
    /\ \A l \in {1, 2, 3} : detectors[l].observation_start_time # None

\* C28: while the junction controls the signals, a lane of the phase group
\* {0, 2} and a lane of the phase group {1, 3} are never GREEN together
C28_OpposingGroupsNotBothGreen ==
    ~opt.observation_enabled =>
        \A a \in {0, 2}, b \in {1, 3} :
            ~( /\ detector_get_signal_state(opt, a) = "GREEN"
               /\ detector_get_signal_state(opt, b) = "GREEN" )

\* C29: at an install every lane is RED under the cycle that ends: with the
\* installing lane's elapsed time as the frame has just stored it and the
\* other lanes' elapsed times as they are, each lane has a green duration of
\* 0 or an elapsed time of at least the duration plus the yellow time
C29_InstallFindsAllRed ==
    [][ opt'.cycle_number # opt.cycle_number =>
          \A l \in Lanes :
              LET g == opt.current_cycle_timings[l + 1]
                  e == IF l = call'.lane THEN call'.num
                       ELSE opt.phase_elapsed_times[l + 1]
              IN  g = 0 \/ e >= g + yellow_time ]_vars

\* C30: the vector installed at a cycle completion has four equal entries,
\* the predictor's duration for the leader lane's count divided by 30
\* (rounded down); the counts of lanes 1, 2 and 3 do not enter
C30_InstalledVectorFromLeaderCount ==
    [][ opt'.cycle_number # opt.cycle_number =>
          LET n == Len(detectors[0].total_count) \div 30
              duration == IF n = 0 THEN 0
                          ELSE IF n < 5 THEN 15
                          ELSE IF n < 10 THEN 25
                          ELSE IF n < 15 THEN 35
                          ELSE 55
          IN  /\ call'.lane = 0
              /\ opt'.current_cycle_timings = <<duration, duration, duration, duration>> ]_vars

\* the leader lane has counted 30 vehicles and the other lanes none: the
\* vector installed is 15 s for every lane
C30_Witness ==
    /\ call.name = "process_frame"
    /\ call.lane = 0
    /\ opt.cycle_number = 1
    /\ Len(detectors[0].total_count) = 30
    /\ \A l \in {1, 2, 3} : detectors[l].total_count = <<>>
    /\ opt.current_cycle_timings = <<15, 15, 15, 15>>
    /\ opt.phase_elapsed_times[1] = 0

\* C31: with four lane workers that keep processing frames and a clock that
\* advances, observation mode becomes false; and as long as a lane is not
\* ready, observation mode is true and every lane reports OBSERVATION
C31_ObservationEndsWhenAllReady ==
    /\ <>(~opt.observation_enabled)
    /\ []( (\E l \in Lanes : ~opt.lanes_ready[l + 1]) =>
               /\ opt.observation_enabled
               /\ \A l \in Lanes : detector_get_signal_state(opt, l) = "OBSERVATION" )

\* lanes 0, 1 and 2 have observed for thirty seconds and lane 3 has not: the
\* junction is still observing
C31_Witness ==
    /\ now = Epoch + observation_duration
    /\ opt.lanes_ready = <<TRUE, TRUE, TRUE, FALSE>>
    /\ opt.lane_observation_times = <<30, 30, 30, 0>>
    /\ opt.observation_enabled
    /\ call.name = "process_frame"
    /\ call.ret.signal_state = "OBSERVATION"

\* C32: a get_data response given while the junction controls the signals
\* does not report the signal state OBSERVATION
C32_NoObservationWhenControlling ==
    (call.name = "get_data" /\ call.arg = "controlling") =>
        call.ret.signal_state # "OBSERVATION"

\* C33: while observation mode is true, recording a count for a lane makes
\* the lane's peak the larger of the old peak and the count, so the peak
\* never decreases, and leaves the peaks of the other lanes and every
\* lane's observation time and ready flag as they were
C33_PeakIsRunningMax ==
    [][(call'.name = "record_observation_vehicle_count"
           /\ call'.lane \in Lanes /\ opt.observation_enabled) =>
          /\ PyGet(opt'.observation_vehicle_counts, call'.lane) =
                 Max(PyGet(opt.observation_vehicle_counts, call'.lane), call'.num)
          /\ PyGet(opt'.observation_vehicle_counts, call'.lane) >=
                 PyGet(opt.observation_vehicle_counts, call'.lane)
          /\ \A l \in Lanes \ {call'.lane} :
                 PyGet(opt'.observation_vehicle_counts, l) =
                     PyGet(opt.observation_vehicle_counts, l)
          /\ opt'.lane_observation_times = opt.lane_observation_times
          /\ opt'.lanes_ready = opt.lanes_ready]_vars

\* a count of 1 has been recorded for a lane whose peak is 2, while another
\* lane is ready
C33_Witness ==
    /\ opt.observation_enabled
    /\ call.name = "record_observation_vehicle_count"
    /\ call.lane \in Lanes
    /\ call.num = 1
    /\ PyGet(opt.observation_vehicle_counts, call.lane) = 2
    /\ \E l \in Lanes \ {call.lane} : PyGet(opt.lanes_ready, l)

\* C34: a lane whose ready flag is true has a stored observation time equal
\* to the observation window
C34_ReadyLaneHasFullWindow ==
    \A l \in Lanes :
        PyGet(opt.lanes_ready, l) =>
            PyGet(opt.lane_observation_times, l) = observation_duration

\* C35: whatever the interleaving of the threads that call
\* initialize_global_optimizer, at most one IntelligentTrafficOptimizer is
\* ever bound to global_optimizer, so the shared instance is never replaced
C35_OneSharedInstance == Len(hist.installed) <= 1

\* C36: with elapsed times that are not negative, the remaining green time
\* of a lane is greater than 0 exactly when the optimizer's signal state of
\* the lane is GREEN
C36_GreenTimeIffGreen ==
    (\A lane \in Lanes : PyGet(opt.phase_elapsed_times, lane) >= 0) =>
        \A lane \in Lanes :
            (get_green_time(opt, lane) > 0) <=> (get_signal_state(opt, lane) = "GREEN")

\* one lane is GREEN with green time left, one is YELLOW with none, and one
\* has no green duration
C36_Witness ==
    /\ \A lane \in Lanes : PyGet(opt.phase_elapsed_times, lane) >= 0
    /\ \E lane \in Lanes :
           get_signal_state(opt, lane) = "GREEN" /\ get_green_time(opt, lane) > 0
    /\ \E lane \in Lanes :
           get_signal_state(opt, lane) = "YELLOW" /\ get_green_time(opt, lane) = 0
    /\ \E lane \in Lanes :
           /\ PyGet(opt.current_cycle_timings, lane) = 0
           /\ get_signal_state(opt, lane) = "RED"
           /\ get_green_time(opt, lane) = 0

\* C37: set_cycle_timing called with a vector whose length is not 4 leaves
\* the cycle timings, the elapsed times and the cycle counter as they were
C37_WrongLengthIgnored ==
    [][(call'.name = "set_cycle_timing" /\ Len(call'.vec) # 4) =>
          /\ opt'.current_cycle_timings = opt.current_cycle_timings
          /\ opt'.phase_elapsed_times = opt.phase_elapsed_times
          /\ opt'.cycle_number = opt.cycle_number]_vars

\* a vector of 3 durations has been passed after an install and after
\* elapsed times have been stored, and all of them are still there
C37_Witness ==
    /\ call.name = "set_cycle_timing"
    /\ Len(call.vec) = 3
    /\ opt.cycle_number = 1
    /\ opt.current_cycle_timings = <<0, 15, 25, 55>>
    /\ opt.phase_elapsed_times # <<0, 0, 0, 0>>

\* C38: once the lane has processed a frame, its two crossing lines lie at
\* 60% and 65% of the height of the first frame it processed and span 20% to
\* 80% of that frame's width, whatever the dimensions of the later frames
C38_LinesFromFirstFrame ==
    hist.first_frame # <<>> =>
        LET first == hist.first_frame[1]
            d == detectors[CounterLane]
        IN  /\ d.frame_analyzed
            /\ d.limit_lines =
                   << << (first.width * 20) \div 100, (first.height * 60) \div 100,
                         (first.width * 80) \div 100, (first.height * 60) \div 100 >>,
                      << (first.width * 20) \div 100, (first.height * 65) \div 100,
                         (first.width * 80) \div 100, (first.height * 65) \div 100 >> >>

\* the lines of a 480 x 360 first frame are in place after a frame of
\* 320 x 240
C38_Witness ==
    /\ hist.first_frame = << [height |-> 360, width |-> 480] >>
    /\ hist.last_frame = << [height |-> 240, width |-> 320] >>
    /\ detectors[CounterLane].frame_count >= 1
    /\ detectors[CounterLane].limit_lines =
           << <<96, 216, 384, 216>>, <<96, 234, 384, 234>> >>

====
